---- MODULE Spec2Model ----
(***************************************************************************)
(* Model of crates/core/src/host_component.rs: the host component          *)
(* registry (HostComponentsBuilder / HostComponents) and the per-instance  *)
(* data store (HostComponentsData) with its typed and type-erased handles. *)
(*                                                                         *)
(* Rust vectors are 0-based, TLA+ sequences 1-based: a handle keeps the    *)
(* 0-based idx of the code and Index(vec, idx) reads vec[idx + 1].         *)
(***************************************************************************)
EXTENDS Naturals, Sequences, FiniteSets, TLC

\* ------------------------------------------------------------------ bounds
\* Registrations made on the builder, accepted by the linker or not.
MaxProviders == 2

\* Calls made on the registry and on its stores: new_data, set, the three
\* accessors, writes through and downcasts of returned references.
MaxCalls == 4

\* Largest u8 value a caller stores.
MaxVal == 1
\* Store calls made in the runs where handles of other registries are used.
MaxForeignCalls == 2

\* ------------------------------------------------------ values and types
\* A value of some HostComponent::Data type, with its TypeId.
Value(ty, val) == [ty |-> ty, val |-> val]

\* Option::None of a slot, and of a failed downcast.
None == Value("None", 0)

\* TypeId of the box a filled slot holds.
BoxTy == "Box<dyn Any + Send>"

\* The host component types registered: TestHC of the test module, the same
\* behind an Arc, and a second implementor with another Data type.
HostComponentTypes == {"TestHC", "Arc<TestHC>", "Flag"}

\* Mutant of DataType: Arc<HC>::Data is the Arc itself.
DataType_arc_self(hc) ==
  CASE hc = "TestHC" -> "u8"
    [] hc = "Arc<TestHC>" -> "Arc<TestHC>"
    [] hc = "Flag" -> "bool"

\* type Data of each implementor; Arc<HC>::Data = HC::Data.
RECURSIVE DataType(_)
DataType(hc) ==
  CASE hc = "TestHC" -> "u8"
    [] hc = "Arc<TestHC>" -> DataType("TestHC")
    [] hc = "Flag" -> "bool"

\* build_data of each implementor; Arc<HC> delegates to the referent.
RECURSIVE build_data(_)
build_data(hc) ==
  CASE hc = "TestHC" -> Value("u8", 0)
    [] hc = "Arc<TestHC>" -> build_data("TestHC")
    [] hc = "Flag" -> Value("bool", FALSE)

\* DynSafeHostComponent::build_data_box: Box::new(self.build_data()).  A box
\* is modelled by the value it owns.
build_data_box(hc) == build_data(hc)

\* The values of a Data type a caller can pass to set or write through a
\* reference.
ValuesOf(ty) ==
  IF ty = "u8" THEN {Value("u8", n) : n \in 0..MaxVal}
  ELSE {Value("bool", b) : b \in BOOLEAN}

\* The elements of a sequence.
Range(seq) == {seq[i] : i \in 1..Len(seq)}

\* vec[idx] of a Rust Vec.
Index(vec, idx) == vec[idx + 1]

\* idx < vec.len(): the bounds check of vec[idx].
InRange(vec, idx) == idx < Len(vec)

\* ------------------------------------------------------------- handles
\* HostComponentDataHandle<HC> { idx, _phantom }.
HostComponentDataHandle(hc, idx) == [idx |-> idx, hc |-> hc]

\* AnyHostComponentDataHandle(usize).
AnyHostComponentDataHandle(idx) == [any_idx |-> idx]

\* From<HostComponentDataHandle<T>> for AnyHostComponentDataHandle.
From(handle) == AnyHostComponentDataHandle(handle.idx)

\* <dyn Any>::downcast_mut::<T>(): Some(the value) when the TypeId of the
\* value behind the reference is T's, None otherwise.
downcast_mut(any, ty) == IF any.ty = ty THEN any ELSE None

\* Method call x.downcast_mut() on x: &mut Box<dyn Any + Send>: auto-deref
\* reaches the dyn Any inside the box, whose TypeId is the stored value's.
DerefBox(box) == box

\* Coercion of &mut Box<dyn Any + Send> to &mut dyn Any at a return site: the
\* unsizing coercion applies to the reference as it stands (Box<dyn Any + Send>
\* is itself Sized + 'static, hence Any), so the trait object is the box and
\* its TypeId is the box's, not the stored value's.
UnsizeBoxRef(box) == Value(BoxTy, box)

\* ---------------------------------------------------------------- state
VARIABLES
  builder,    \* HostComponentsBuilder: [host_components], or Moved after build(self)
  linker,     \* the accessor closures HC::add_to_linker wired into the Linker
  handles,    \* the typed handles add_host_component has returned, in order
  registry,   \* HostComponents: [host_components], or NoRegistry before build
  stores,     \* the HostComponentsData values new_data has returned
  panicked,   \* a call has panicked (index out of range, unwrap of None)
  ret,        \* the last call and what it returned
  hist,       \* history, per store and slot: what the caller did to the slot
  ncalls      \* number of calls made on the registry and its stores

vars == <<builder, linker, handles, registry, stores, panicked, ret, hist, ncalls>>

\* The builder after build(self) has consumed it.
Moved == [moved |-> TRUE]

\* No HostComponents value exists yet.
NoRegistry == [built |-> FALSE]

\* History of one slot: accessed: get_or_insert_idx has been called on it;
\* by/v: the last value the caller stored in it ("set": through set, "ref":
\* through a returned reference, "none": never); fresh: a set has been made and
\* the slot has not been accessed since; builds: how many times the provider's
\* build_data has been invoked for the slot.
NoHist ==
  [accessed |-> FALSE, by |-> "none", v |-> None, fresh |-> FALSE, builds |-> 0]

\* The last call: op, whether it returned normally (ok), the store and slot it
\* was made on, the handle's HC type, the value behind what it returned, and
\* the slot's history before the call.
Ret(op, ok, store, idx, hc, val, pre) ==
  [op |-> op, ok |-> ok, store |-> store, idx |-> idx, hc |-> hc, val |-> val,
   pre |-> pre]

\* ------------------------------------------------------ HostComponents
\* HostComponentsBuilder::default().
Default == [host_components |-> <<>>]

\* Mutant of build: the builder is borrowed and stays usable.
build_by_ref(self) ==
  [self |-> self, registry |-> [host_components |-> self.host_components]]

\* HostComponentsBuilder::build(self): the builder is taken by value, so the
\* caller's builder is moved from; the list goes into the Arc.
build(self) ==
  [self |-> Moved, registry |-> [host_components |-> self.host_components]]

\* Mutant of new_data: one slot too few.
new_data_short(self) ==
  [data |-> [i \in 1..(Len(self.host_components) - 1) |-> None],
   host_components |-> self.host_components]

\* Mutant of new_data: every slot is built eagerly.
new_data_prefilled(self) ==
  [data |-> [i \in 1..Len(self.host_components) |->
              build_data_box(self.host_components[i])],
   host_components |-> self.host_components]

\* HostComponents::new_data(&self): one None per host component, and a clone
\* of the Arc (the same immutable list).
new_data(self) ==
  [data |-> [i \in 1..Len(self.host_components) |-> None],
   host_components |-> self.host_components]

\* -------------------------------------------------- HostComponentsData
\* Results of the store methods: whether the call panicked, the store after
\* it, the value behind the returned reference.
Result(p, self, val) == [panicked |-> p, self |-> self, val |-> val]

\* Mutant of set: an index past the end is ignored, the call returns.
set_out_of_range_ignored(self, handle, data) ==
  IF InRange(self.data, handle.idx)
  THEN Result(FALSE, [self EXCEPT !.data[handle.idx + 1] = data], None)
  ELSE Result(FALSE, self, None)

\* Mutant of set: the value is dropped, no slot is written.
set_dropped(self, handle, data) == Result(~InRange(self.data, handle.idx), self, None)

\* Mutant of SlotAssign: the slot is written only when it is empty.
SlotAssign_if_empty(opt, box) == IF opt = None THEN box ELSE opt

\* self.data[i] = Some(box): the slot's former content is replaced.
SlotAssign(opt, box) == box

\* HostComponentsData::set: self.data[handle.idx] = Some(Box::new(data)).
set(self, handle, data) ==
  IF InRange(self.data, handle.idx)
  THEN Result(FALSE, [self EXCEPT !.data[handle.idx + 1] = SlotAssign(@, data)],
              None)
  ELSE Result(TRUE, self, None)

\* Mutant of OptionGetOrInsertWith: Option::insert, f() stored on every call.
OptionInsert(opt, f) == f

\* Option::get_or_insert_with(f): f() stored only when the option is None.
OptionGetOrInsertWith(opt, f) == IF opt = None THEN f ELSE opt

\* Mutant of ProviderAt: the first provider builds the data of every slot.
ProviderAt_first(self, idx) == Index(self.host_components, 0)

\* self.host_components[idx]: the provider that builds slot idx.
ProviderAt(self, idx) == Index(self.host_components, idx)

\* Mutant of get_or_insert_idx: the first access fills every empty slot.
get_or_insert_idx_eager(self, idx) ==
  IF InRange(self.data, idx)
  THEN LET filled == [i \in 1..Len(self.data) |->
                       OptionGetOrInsertWith(self.data[i],
                         build_data_box(self.host_components[i]))]
       IN Result(FALSE, [self EXCEPT !.data = filled], Index(filled, idx))
  ELSE Result(TRUE, self, None)

\* HostComponentsData::get_or_insert_idx: the returned &mut Box is the slot's.
get_or_insert_idx(self, idx) ==
  IF InRange(self.data, idx)
  THEN LET box == OptionGetOrInsertWith(Index(self.data, idx),
                    build_data_box(ProviderAt(self, idx)))
       IN Result(FALSE, [self EXCEPT !.data[idx + 1] = box], box)
  ELSE Result(TRUE, self, None)

\* Option::unwrap on the result of a call that may already have panicked.
Unwrap(r, opt) ==
  IF r.panicked \/ opt = None THEN Result(TRUE, r.self, None)
  ELSE Result(FALSE, r.self, opt)

\* HostComponentsData::get_or_insert: x.downcast_mut().unwrap() with
\* x = self.get_or_insert_idx(handle.idx).
get_or_insert(self, handle) ==
  LET x == get_or_insert_idx(self, handle.idx)
  IN Unwrap(x, IF x.panicked THEN None
               ELSE downcast_mut(DerefBox(x.val), DataType(handle.hc)))

\* HostComponentsData::get_or_insert_any: the &mut Box returned by
\* get_or_insert_idx, coerced to &mut dyn Any.
get_or_insert_any(self, handle) ==
  LET x == get_or_insert_idx(self, handle.any_idx)
  IN IF x.panicked THEN x ELSE Result(FALSE, x.self, UnsizeBoxRef(x.val))

\* Mutant of AccessorClosure: the closure captures the length after the push.
AccessorClosure_after_push(hc, idx) == [idx |-> idx + 1, hc |-> hc]

\* The closure add_host_component passes to HC::add_to_linker, for index idx
\* and host component type hc: [idx, hc].
AccessorClosure(hc, idx) == [idx |-> idx, hc |-> hc]

\* Calling that closure on a store:
\* data.host_components_data.get_or_insert_idx(idx).downcast_mut().unwrap().
CallAccessor(closure, self) ==
  LET x == get_or_insert_idx(self, closure.idx)
  IN Unwrap(x, IF x.panicked THEN None
               ELSE downcast_mut(DerefBox(x.val), DataType(closure.hc)))

\* *r = v through a reference r returned for slot idx of the store.
WriteThrough(self, idx, v) == [self EXCEPT !.data[idx + 1] = v]

\* Mutant of MutSelf: the slots live in state shared by all the stores.
MutSelf_shared(ss, s, self) == [b \in 1..Len(ss) |-> self]

\* A method taking &mut self changes the store it is called on.
MutSelf(ss, s, self) == [ss EXCEPT ![s] = self]

\* Mutant of add_host_component: the index is read after the push.
add_host_component_after_push(self, hc, linked) ==
  LET pushed == [self EXCEPT !.host_components = Append(@, hc)]
      idx == Len(pushed.host_components)
  IN [self |-> pushed,
      closure |-> AccessorClosure(hc, idx),
      ok |-> linked,
      handle |-> HostComponentDataHandle(hc, idx)]

\* Mutant of add_host_component: a rejected wiring leaves the builder unusable.
add_host_component_poisoned(self, hc, linked) ==
  LET idx == Len(self.host_components)
  IN [self |-> IF linked THEN [self EXCEPT !.host_components = Append(@, hc)]
               ELSE Moved,
      closure |-> AccessorClosure(hc, idx),
      ok |-> linked,
      handle |-> HostComponentDataHandle(hc, idx)]

\* Mutant of add_host_component: the provider is pushed only once the linker
\* has accepted the wiring.
add_host_component_push_on_ok(self, hc, linked) ==
  LET idx == Len(self.host_components)
  IN [self |-> IF linked THEN [self EXCEPT !.host_components = Append(@, hc)]
               ELSE self,
      closure |-> AccessorClosure(hc, idx),
      ok |-> linked,
      handle |-> HostComponentDataHandle(hc, idx)]

\* Mutant of add_host_component: the provider is inserted at the front.
add_host_component_push_front(self, hc, linked) ==
  LET idx == Len(self.host_components)
  IN [self |-> [self EXCEPT !.host_components = <<hc>> \o @],
      closure |-> AccessorClosure(hc, idx),
      ok |-> linked,
      handle |-> HostComponentDataHandle(hc, idx)]

\* HostComponentsBuilder::add_host_component: the index taken, the provider
\* pushed, the closure handed to HC::add_to_linker, and the handle returned
\* when the linker accepted the wiring (linked); Arc<HC>::add_to_linker is
\* HC::add_to_linker.
add_host_component(self, hc, linked) ==
  LET idx == Len(self.host_components)
  IN [self |-> [self EXCEPT !.host_components = Append(@, hc)],
      closure |-> AccessorClosure(hc, idx),
      ok |-> linked,
      handle |-> HostComponentDataHandle(hc, idx)]

\* ------------------------------------------------------------- history
\* The slot's history, for a call on slot idx of store s.
HistOf(s, idx) == IF InRange(hist[s], idx) THEN Index(hist[s], idx) ELSE NoHist

\* The history after a call that went through get_or_insert_idx.
Accessed(h) == [h EXCEPT !.accessed = TRUE, !.fresh = FALSE]

\* Mutant of BuildCalls: build_data_box runs on every access.
BuildCalls_every_access(self, idx) == 1

\* A box no provider builds, to tell whether get_or_insert_with ran its closure.
Probe == Value("probe", 0)

\* How many times get_or_insert_idx(idx) on self invokes build_data_box: once
\* if get_or_insert_with runs its closure on the slot, else never.
BuildCalls(self, idx) ==
  IF /\ InRange(self.data, idx)
     /\ OptionGetOrInsertWith(Index(self.data, idx), Probe) = Probe
  THEN 1 ELSE 0

\* The history after a call that invoked build_data n times.
Built(h, n) == [h EXCEPT !.builds = @ + n]

\* The history after the caller stored v (through set, or through a reference).
Stored(h, by, v) == [h EXCEPT !.by = by, !.v = v, !.fresh = (by = "set")]

\* hist with the history of slot idx of store s replaced, unless the call
\* panicked.
Record(s, idx, r, h) ==
  IF r.panicked THEN hist ELSE [hist EXCEPT ![s][idx + 1] = h]

\* ----------------------------------------------------------------- Init
Init ==
  /\ builder = Default
  /\ linker = {}
  /\ handles = <<>>
  /\ registry = NoRegistry
  /\ stores = <<>>
  /\ panicked = FALSE
  /\ ret = Ret("builder", TRUE, 0, 0, "", None, NoHist)
  /\ hist = <<>>
  /\ ncalls = 0

\* -------------------------------------------------------------- actions
\* builder.add_host_component(&mut linker, host_component): the linker accepts
\* the wiring or rejects it.
AddHostComponent ==
  \E hc \in HostComponentTypes, linked \in BOOLEAN :
    /\ ~panicked
    /\ builder # Moved
    /\ Len(builder.host_components) < MaxProviders
    /\ LET r == add_host_component(builder, hc, linked)
       IN /\ builder' = r.self
          /\ linker' = IF r.ok THEN linker \cup {r.closure} ELSE linker
          /\ handles' = IF r.ok THEN Append(handles, r.handle) ELSE handles
          /\ ret' = Ret("add_host_component", r.ok, 0, r.handle.idx, hc, None, NoHist)
    /\ UNCHANGED <<registry, stores, panicked, hist, ncalls>>

\* builder.build(): consumes the builder.
Build ==
  /\ ~panicked
  /\ builder # Moved
  /\ registry' = build(builder).registry
  /\ builder' = build(builder).self
  /\ ret' = Ret("build", TRUE, 0, 0, "", None, NoHist)
  /\ UNCHANGED <<linker, handles, stores, panicked, hist, ncalls>>

\* host_components.new_data().
NewData ==
  /\ ~panicked
  /\ registry # NoRegistry
  /\ ncalls < MaxCalls
  /\ stores' = Append(stores, new_data(registry))
  /\ hist' = Append(hist, [i \in 1..Len(registry.host_components) |-> NoHist])
  /\ ret' = Ret("new_data", TRUE, Len(stores) + 1, 0, "", None, NoHist)
  /\ ncalls' = ncalls + 1
  /\ UNCHANGED <<builder, linker, handles, registry, panicked>>

\* What a call on store s leaves: the store, the panic flag, the call count.
Call(s, r) ==
  /\ stores' = MutSelf(stores, s, r.self)
  /\ panicked' = r.panicked
  /\ ncalls' = ncalls + 1
  /\ UNCHANGED <<builder, linker, handles, registry>>

\* hc_data.set(handle, data).
Set ==
  \E s \in 1..Len(stores), handle \in Range(handles) :
    \E data \in ValuesOf(DataType(handle.hc)) :
      /\ ~panicked
      /\ ncalls < MaxCalls
      /\ LET r == set(stores[s], handle, data)
             pre == HistOf(s, handle.idx)
         IN /\ Call(s, r)
            /\ hist' = Record(s, handle.idx, r, Stored(pre, "set", data))
            /\ ret' = Ret("set", ~r.panicked, s, handle.idx, handle.hc, None, pre)

\* hc_data.get_or_insert(handle).
GetOrInsert ==
  \E s \in 1..Len(stores), handle \in Range(handles) :
    /\ ~panicked
    /\ ncalls < MaxCalls
    /\ LET r == get_or_insert(stores[s], handle)
           pre == HistOf(s, handle.idx)
       IN /\ Call(s, r)
          /\ hist' = Record(s, handle.idx, r,
                           Built(Accessed(pre), BuildCalls(stores[s], handle.idx)))
          /\ ret' = Ret("get_or_insert", ~r.panicked, s, handle.idx, handle.hc,
                        r.val, pre)

\* hc_data.get_or_insert_any(handle.into()).
GetOrInsertAny ==
  \E s \in 1..Len(stores), handle \in Range(handles) :
    /\ ~panicked
    /\ ncalls < MaxCalls
    /\ LET r == get_or_insert_any(stores[s], From(handle))
           pre == HistOf(s, handle.idx)
       IN /\ Call(s, r)
          /\ hist' = Record(s, handle.idx, r,
                           Built(Accessed(pre), BuildCalls(stores[s], handle.idx)))
          /\ ret' = Ret("get_or_insert_any", ~r.panicked, s, handle.idx, handle.hc,
                        r.val, pre)

\* The linker invokes an accessor closure with the store of an instance.
Accessor ==
  \E s \in 1..Len(stores), closure \in linker :
    /\ ~panicked
    /\ ncalls < MaxCalls
    /\ LET r == CallAccessor(closure, stores[s])
           pre == HistOf(s, closure.idx)
       IN /\ Call(s, r)
          /\ hist' = Record(s, closure.idx, r,
                           Built(Accessed(pre), BuildCalls(stores[s], closure.idx)))
          /\ ret' = Ret("accessor", ~r.panicked, s, closure.idx, closure.hc,
                        r.val, pre)

\* The calls that return a live &mut HC::Data.
TypedRefOps == {"get_or_insert", "accessor", "write"}

\* *r = v, with r the &mut HC::Data the last call on the store returned.
WriteRef ==
  /\ ~panicked
  /\ ncalls < MaxCalls
  /\ ret.op \in TypedRefOps
  /\ ret.ok
  /\ \E v \in ValuesOf(DataType(ret.hc)) :
       LET pre == HistOf(ret.store, ret.idx)
       IN /\ stores' = MutSelf(stores, ret.store,
                               WriteThrough(stores[ret.store], ret.idx, v))
          /\ hist' = [hist EXCEPT ![ret.store][ret.idx + 1] = Stored(pre, "ref", v)]
          /\ ret' = Ret("write", TRUE, ret.store, ret.idx, ret.hc, v, pre)
  /\ ncalls' = ncalls + 1
  /\ UNCHANGED <<builder, linker, handles, registry, panicked>>

\* The TypeIds a caller may downcast a &mut dyn Any to.
TypeIds == {"u8", "bool", BoxTy}

\* r.downcast_mut::<T>(), with r the &mut dyn Any get_or_insert_any returned.
DowncastAny ==
  /\ ~panicked
  /\ ncalls < MaxCalls
  /\ ret.op = "get_or_insert_any"
  /\ ret.ok
  /\ \E ty \in TypeIds :
       ret' = Ret("downcast_mut", TRUE, ret.store, ret.idx, ret.hc,
                  downcast_mut(ret.val, ty), ret.pre)
  /\ ncalls' = ncalls + 1
  /\ UNCHANGED <<builder, linker, handles, registry, stores, panicked, hist>>

Next ==
  \/ AddHostComponent
  \/ Build
  \/ NewData
  \/ Set
  \/ GetOrInsert
  \/ GetOrInsertAny
  \/ Accessor
  \/ WriteRef
  \/ DowncastAny

Spec == Init /\ [][Next]_vars

\* ---------------------------------------------------------------- claims
\* The last call was a get_or_insert that returned.
GotTyped == ret.op = "get_or_insert" /\ ret.ok

\* The slot the last call was made on, as the store holds it now.
SlotOfRet == Index(stores[ret.store].data, ret.idx)

\* C1: on a slot that was never set, the first get_or_insert returns the
\* provider's build_data(); every later get_or_insert returns what the slot
\* holds - the last value stored through set or through a returned reference,
\* else the default made by the first access - and leaves it in the slot.
C1_LazyInit ==
  GotTyped =>
    /\ (~ret.pre.accessed /\ ret.pre.by = "none") => ret.val = build_data(ret.hc)
    /\ ret.pre.accessed =>
         ret.val = (IF ret.pre.by = "none" THEN build_data(ret.hc) ELSE ret.pre.v)
    /\ SlotOfRet = ret.val

\* A later get_or_insert returned the value written through a reference an
\* earlier access returned, which is not the default.
C1_Witness ==
  /\ GotTyped
  /\ ret.pre.accessed
  /\ ret.pre.by = "ref"
  /\ ret.val = ret.pre.v
  /\ ret.val # build_data(ret.hc)

\* C2: when set(h, v) was called before any access of the slot, the first
\* get_or_insert(h) returns v.
C2_SetOverridesDefault ==
  (GotTyped /\ ~ret.pre.accessed /\ ret.pre.by = "set") => ret.val = ret.pre.v

\* The first get_or_insert of a slot returned a set value that differs from
\* the provider's default.
C2_Witness ==
  /\ GotTyped
  /\ ~ret.pre.accessed
  /\ ret.pre.by = "set"
  /\ ret.val = ret.pre.v
  /\ ret.val # build_data(ret.hc)

\* C3: every slot of every store is what the calls made on that store itself
\* left there: empty when the store's slot was never touched, the default of
\* its provider when it was only accessed, the last value stored in it
\* otherwise, whatever was done to the other stores of the registry.
C3_Isolation ==
  \A b \in 1..Len(stores) :
    \A i \in 1..Len(stores[b].data) :
      LET h == hist[b][i]
          slot == stores[b].data[i]
      IN /\ (h = NoHist) => (slot = None)
         /\ (h.accessed /\ h.by = "none") =>
              slot = build_data_box(stores[b].host_components[i])
         /\ (h.by # "none") => (slot = h.v)

\* Two stores of the registry: the slot of one was mutated through a returned
\* reference and holds a non-default value, the same slot of the other is
\* still empty.
C3_Witness ==
  \E a \in 1..Len(stores), b \in 1..Len(stores) :
    \E i \in 1..Len(stores[a].data) :
      /\ a # b
      /\ hist[a][i].by = "ref"
      /\ stores[a].data[i] # build_data_box(stores[a].host_components[i])
      /\ stores[b].data[i] = None

\* C4: the first get_or_insert of a slot that was never set returns, and
\* returns the default of the provider registered at that index, of that
\* provider's Data type, which is the handle's, whatever the other slots of
\* the store hold.
C4_Independence ==
  (ret.op = "get_or_insert" /\ ~ret.pre.accessed /\ ret.pre.by = "none") =>
    LET provider == Index(registry.host_components, ret.idx)
    IN /\ ret.ok
       /\ ret.val = build_data(provider)
       /\ ret.val.ty = DataType(provider)
       /\ ret.val.ty = DataType(ret.hc)

\* A slot was lazily initialized while another slot of the same store already
\* held a set value of another Data type.
C4_Witness ==
  /\ GotTyped
  /\ ~ret.pre.accessed
  /\ ret.pre.by = "none"
  /\ \E j \in 1..Len(stores[ret.store].data) :
       /\ j # ret.idx + 1
       /\ hist[ret.store][j].by = "set"
       /\ stores[ret.store].data[j].ty # ret.val.ty
       /\ stores[ret.store].data[j] # build_data(stores[ret.store].host_components[j])

\* C5: the get_or_insert that follows set(h, v) returns v, whatever the slot
\* held before the set.
C5_SetOverwrites ==
  (GotTyped /\ ret.pre.fresh) => (ret.val = ret.pre.v /\ SlotOfRet = ret.pre.v)

\* The slot had been accessed (so it was filled) before the set, and the
\* get_or_insert after the set returned the set value, not the default.
C5_Witness ==
  /\ GotTyped
  /\ ret.pre.fresh
  /\ ret.pre.accessed
  /\ ret.val = ret.pre.v
  /\ ret.val # build_data(ret.hc)

\* The calls made on a slot of a store.
SlotOps == {"set", "get_or_insert", "get_or_insert_any", "accessor"}

\* C6: a set, get_or_insert, get_or_insert_any or accessor call on slot idx of
\* a store leaves every other slot of that store as it was.
C6_Frame ==
  [][\A s \in 1..Len(stores) :
       \A i \in 1..Len(stores[s].data) :
         (ret'.op \in SlotOps /\ ret'.store = s /\ ret'.idx + 1 # i) =>
           stores'[s].data[i] = stores[s].data[i]]_vars

\* A lazy initialization was made in a store in which another slot holds a
\* set value and kept it.
C6_Witness ==
  /\ ret.op \in {"get_or_insert", "get_or_insert_any"}
  /\ ret.ok
  /\ ~ret.pre.accessed
  /\ ret.pre.by = "none"
  /\ \E j \in 1..Len(stores[ret.store].data) :
       /\ j # ret.idx + 1
       /\ hist[ret.store][j].by = "set"
       /\ stores[ret.store].data[j] = hist[ret.store][j].v

\* C7: the reference get_or_insert_any(handle.into()) returns, downcast to the
\* handle's Data type, is the value get_or_insert(handle) returns on the same
\* store, and the typed call finds the slot already initialized.
C7_ErasureRoundTrip ==
  (ret.op = "get_or_insert_any" /\ ret.ok) =>
    LET typed == get_or_insert(stores[ret.store],
                               HostComponentDataHandle(ret.hc, ret.idx))
    IN /\ downcast_mut(ret.val, DataType(ret.hc)) = typed.val
       /\ typed.self = stores[ret.store]

\* C8: every store has one slot per provider of the registry, at any time,
\* and the store new_data has just returned has every slot empty.
C8_StoreLength ==
  /\ \A s \in 1..Len(stores) :
       Len(stores[s].data) = Len(registry.host_components)
  /\ (ret.op = "new_data") =>
       \A i \in 1..Len(stores[ret.store].data) : stores[ret.store].data[i] = None

\* A store of a registry of two providers, after a call that filled a slot.
C8_Witness ==
  /\ ret.op \in SlotOps
  /\ Len(registry.host_components) = 2
  /\ Len(stores[ret.store].data) = 2
  /\ SlotOfRet # None

\* C9: a registration takes as index the number of providers the builder held
\* before it; the handles returned by different registrations carry different
\* indices; a handle once returned never changes.
C9_SequentialIndices ==
  [][/\ (Len(handles') > Len(handles)) =>
          handles'[Len(handles')].idx = Len(builder.host_components)
     /\ (ret'.op = "add_host_component" /\ builder' # builder) =>
          ret'.idx = Len(builder.host_components)
     /\ \A i \in 1..Len(handles) : handles'[i] = handles[i]
     /\ \A i \in 1..Len(handles') : \A j \in 1..Len(handles') :
          (i # j) => (handles'[i].idx # handles'[j].idx)]_vars

\* Two registrations returned the handles of indices 0 and 1, and calls on a
\* store of the built registry have been made since.
C9_Witness ==
  /\ Len(handles) = 2
  /\ handles[1].idx = 0
  /\ handles[2].idx = 1
  /\ ret.op \in SlotOps

\* C10: once build() has made the registry, the builder is moved from and
\* stays so, no add_host_component occurs, the registry's provider list stays
\* the same, and every store holds that same list.
C10_BuilderFinality ==
  [][(registry # NoRegistry) =>
       /\ builder = Moved
       /\ builder' = Moved
       /\ ret'.op # "add_host_component"
       /\ registry' = registry
       /\ \A s \in 1..Len(stores') :
            stores'[s].host_components = registry.host_components]_vars

\* A built registry with providers, the builder consumed, and a store of it
\* that has been accessed.
C10_Witness ==
  /\ registry # NoRegistry
  /\ builder = Moved
  /\ Len(registry.host_components) >= 1
  /\ GotTyped

\* What a typed access of a slot returns, from the slot's history before the
\* call and the handle's HC type: the value last stored, else the default.
Expected(pre, hc) == IF pre.by = "none" THEN build_data(hc) ELSE pre.v

\* The calls that return a &mut HC::Data of the slot.
TypedGets == {"get_or_insert", "accessor"}

\* C11: a registration the linker rejects returns no handle and wires no
\* closure, leaves the stores alone and the builder usable, and its index is
\* carried by no handle; on a registry that holds rejected providers, every
\* typed access through a returned handle or closure returns, and returns
\* what it would on a registry without them: the value last stored in the
\* slot, else the default of the handle's provider.
C11_RegistrationFailure ==
  [][/\ (ret'.op = "add_host_component" /\ builder' # builder /\ ~ret'.ok) =>
          /\ handles' = handles
          /\ linker' = linker
          /\ stores' = stores
          /\ builder' # Moved
          /\ \A h \in Range(handles') : h.idx # ret'.idx
     /\ (/\ ret'.op \in TypedGets
         /\ ret' # ret
         /\ Len(handles') < Len(registry'.host_components)) =>
          /\ ret'.ok
          /\ ret'.val = Expected(ret'.pre, ret'.hc)]_vars

\* The first registration was rejected, the second returned the handle of
\* index 1, the registry was built, and get_or_insert through that handle
\* returned its provider's default.
C11_Witness ==
  /\ Len(handles) = 1
  /\ handles[1].idx = 1
  /\ registry # NoRegistry
  /\ GotTyped
  /\ ret.idx = 1
  /\ ~ret.pre.accessed
  /\ ret.val = build_data(handles[1].hc)

\* C14: a new_data call, wherever it falls among the calls made on the other
\* stores, returns a store with one empty slot per provider and leaves the
\* registry and every store that already exists as they were.
C14_ConcurrentNewData ==
  [][(ret'.op = "new_data" /\ Len(stores') > Len(stores)) =>
       /\ Len(stores') = Len(stores) + 1
       /\ Len(stores'[Len(stores')].data) = Len(registry.host_components)
       /\ \A i \in 1..Len(stores'[Len(stores')].data) :
            stores'[Len(stores')].data[i] = None
       /\ stores'[Len(stores')].host_components = registry.host_components
       /\ \A s \in 1..Len(stores) : stores'[s] = stores[s]
       /\ registry' = registry]_vars

\* new_data returned a second store, empty, after a value other than the
\* default had been stored in the first store, which still holds it.
C14_Witness ==
  /\ ret.op = "new_data"
  /\ ret.store = 2
  /\ \E i \in 1..Len(stores[1].data) :
       /\ hist[1][i].by # "none"
       /\ stores[1].data[i] = hist[1][i].v
       /\ stores[1].data[i] # build_data_box(stores[1].host_components[i])
       /\ stores[2].data[i] = None

\* The provider list as it stands: the builder's, then the registry's.
Providers == IF registry # NoRegistry THEN registry.host_components
             ELSE builder.host_components

\* C15: for every handle a registration returned, the provider at the
\* handle's index, in the builder and then in the registry and in every store
\* of it, is the provider passed to that registration, and a slot that was
\* only accessed holds that provider's build_data.
C15_Correspondence ==
  /\ \A h \in Range(handles) :
       /\ InRange(Providers, h.idx)
       /\ Index(Providers, h.idx) = h.hc
       /\ \A s \in 1..Len(stores) :
            /\ Index(stores[s].host_components, h.idx) = h.hc
            /\ (HistOf(s, h.idx).accessed /\ HistOf(s, h.idx).by = "none") =>
                 Index(stores[s].data, h.idx) = build_data_box(h.hc)

\* After a rejected and an accepted registration of providers of different
\* Data types and build(), the slot of the returned handle was lazily
\* initialized.
C15_Witness ==
  /\ registry # NoRegistry
  /\ Len(registry.host_components) = 2
  /\ Len(handles) = 1
  /\ handles[1].idx = 1
  /\ DataType(registry.host_components[1]) # DataType(registry.host_components[2])
  /\ \E s \in 1..Len(stores) :
       /\ hist[s][2].accessed
       /\ hist[s][2].by = "none"
       /\ stores[s].data[2] = build_data_box(handles[1].hc)

\* C17: every returned handle has its accessor closure in the linker, and on
\* every store, in the state it is in, calling the closure and calling
\* get_or_insert with the handle give the same result: the same value, the
\* same store afterwards, both returning.
C17_AccessorEquivalence ==
  /\ \A h \in Range(handles) :
       \E c \in linker :
         /\ c.hc = h.hc
         /\ c.idx = h.idx
         /\ \A s \in 1..Len(stores) :
              /\ CallAccessor(c, stores[s]) = get_or_insert(stores[s], h)
              /\ ~CallAccessor(c, stores[s]).panicked
  /\ (ret.op \in TypedGets) => (ret.ok /\ ret.val = Expected(ret.pre, ret.hc))

\* The accessor closure returned the value written through a reference that
\* an earlier typed access of the slot had returned.
C17_Witness ==
  /\ ret.op = "accessor"
  /\ ret.ok
  /\ ret.pre.by = "ref"
  /\ ret.val = ret.pre.v
  /\ ret.val # build_data(ret.hc)
  /\ \E h \in Range(handles) : h.idx = ret.idx /\ h.hc = ret.hc

\* C19: every add_host_component call, accepted or rejected, adds exactly one
\* provider to the builder; an accepted one returns as index the number of
\* calls made before it; every store has one slot per call made, which is at
\* least the number of handles returned.
C19_FailedRegistrationKeepsIndex ==
  [][/\ (ret'.op = "add_host_component" /\ ret' # ret) =>
          /\ builder # Moved
          /\ builder' # Moved
          /\ Len(builder'.host_components) = Len(builder.host_components) + 1
          /\ ret'.idx = Len(builder.host_components)
          /\ ret'.ok => /\ Len(handles') = Len(handles) + 1
                        /\ handles'[Len(handles')].idx = Len(builder.host_components)
          /\ ~ret'.ok => handles' = handles
     /\ (ret'.op = "new_data" /\ ret' # ret) =>
          /\ Len(stores'[ret'.store].data) = Len(registry.host_components)
          /\ Len(stores'[ret'.store].data) >= Len(handles)]_vars

\* A store of a registry built after one rejected and one accepted
\* registration: two slots for one handle, whose index is 1.
C19_Witness ==
  /\ ret.op = "new_data"
  /\ Len(handles) = 1
  /\ handles[1].idx = 1
  /\ Len(stores[ret.store].data) = 2

\* A store, with the provider of slot idx replaced by hc.
WithProvider(self, idx, hc) == [self EXCEPT !.host_components[idx + 1] = hc]

\* C20: on every store, in the state it is in, a handle of an Arc<TestHC>
\* registration gives what a by-value TestHC registration at the same index
\* would: get_or_insert returns, with the same value and the same slots
\* afterwards, and set takes the same values and leaves the same slots.
C20_ArcDelegates ==
  \A h \in Range(handles) : \A s \in 1..Len(stores) :
    (h.hc = "Arc<TestHC>") =>
      LET byValue == HostComponentDataHandle("TestHC", h.idx)
          other == WithProvider(stores[s], h.idx, "TestHC")
          viaArc == get_or_insert(stores[s], h)
          viaValue == get_or_insert(other, byValue)
      IN /\ ~viaArc.panicked
         /\ ~viaValue.panicked
         /\ viaArc.val = viaValue.val
         /\ viaArc.self.data = viaValue.self.data
         /\ ValuesOf(DataType(h.hc)) = ValuesOf(DataType(byValue.hc))
         /\ \A v \in ValuesOf(DataType(h.hc)) :
              set(stores[s], h, v).self.data = set(other, byValue, v).self.data

\* The slot of an Arc<TestHC> registration was lazily initialized with
\* TestHC's build_data, of TestHC's Data type.
C20_Witness ==
  /\ GotTyped
  /\ ret.hc = "Arc<TestHC>"
  /\ ~ret.pre.accessed
  /\ ret.pre.by = "none"
  /\ ret.val = build_data("TestHC")
  /\ ret.val.ty = DataType("TestHC")

\* The calls that go through get_or_insert_idx.
AccessOps == {"get_or_insert", "get_or_insert_any", "accessor"}

\* C18: in every step and for every slot of every store, build_data has been
\* invoked at most once for the slot; the count changes only in a call that
\* goes through get_or_insert_idx on that slot and finds it empty, so never
\* in new_data or set; it is zero while the slot has not been accessed, and
\* still zero after the first access of a slot that was set before; and a
\* filled slot is never empty afterwards.
C18_BuildDataAtMostOnce ==
  [][\A s \in 1..Len(stores') : \A i \in 1..Len(stores'[s].data) :
       LET old == IF s <= Len(stores) THEN hist[s][i].builds ELSE 0
           oldSlot == IF s <= Len(stores) THEN stores[s].data[i] ELSE None
           new == hist'[s][i].builds
       IN /\ new <= 1
          /\ new # old => /\ ret'.op \in AccessOps
                          /\ ret'.store = s
                          /\ ret'.idx = i - 1
                          /\ oldSlot = None
                          /\ new = old + 1
          /\ ~hist'[s][i].accessed => new = 0
          /\ (/\ ret'.op \in AccessOps
              /\ ret'.store = s
              /\ ret'.idx = i - 1
              /\ ret'.pre.by = "set") => new = ret'.pre.builds
          /\ oldSlot # None => stores'[s].data[i] # None]_vars

\* One slot was set and then accessed for the first time, with no build_data
\* call; another slot of the same store was accessed while empty, with one.
C18_Witness ==
  /\ ret.op \in AccessOps
  /\ ret.ok
  /\ \E i \in 1..Len(stores[ret.store].data) :
       /\ hist[ret.store][i].by = "set"
       /\ hist[ret.store][i].accessed
       /\ hist[ret.store][i].builds = 0
  /\ \E i \in 1..Len(stores[ret.store].data) :
       /\ hist[ret.store][i].by = "none"
       /\ hist[ret.store][i].accessed
       /\ hist[ret.store][i].builds = 1

\* ------------------------------------------------ handles of other registries
\* The typed handles the builders of other registries return: any provider
\* type, at any index a registry of up to MaxProviders + 1 providers gives.
ForeignHandles ==
  {HostComponentDataHandle(hc, idx) : hc \in HostComponentTypes, idx \in 0..MaxProviders}

\* The accessor closures the builders of other registries wire.
ForeignClosures ==
  {AccessorClosure(hc, idx) : hc \in HostComponentTypes, idx \in 0..MaxProviders}

\* hc_data.set(handle, data), the handle from any registry.
SetForeign ==
  \E s \in 1..Len(stores), handle \in ForeignHandles :
    \E data \in ValuesOf(DataType(handle.hc)) :
      /\ ~panicked
      /\ ncalls < MaxForeignCalls
      /\ LET r == set(stores[s], handle, data)
             pre == HistOf(s, handle.idx)
         IN /\ Call(s, r)
            /\ hist' = Record(s, handle.idx, r, Stored(pre, "set", data))
            /\ ret' = Ret("set", ~r.panicked, s, handle.idx, handle.hc, None, pre)

\* hc_data.get_or_insert(handle), the handle from any registry.
GetOrInsertForeign ==
  \E s \in 1..Len(stores), handle \in ForeignHandles :
    /\ ~panicked
    /\ ncalls < MaxForeignCalls
    /\ LET r == get_or_insert(stores[s], handle)
           pre == HistOf(s, handle.idx)
       IN /\ Call(s, r)
          /\ hist' = Record(s, handle.idx, r,
                           Built(Accessed(pre), BuildCalls(stores[s], handle.idx)))
          /\ ret' = Ret("get_or_insert", ~r.panicked, s, handle.idx, handle.hc,
                        r.val, pre)

\* hc_data.get_or_insert_any(handle.into()), the handle from any registry.
GetOrInsertAnyForeign ==
  \E s \in 1..Len(stores), handle \in ForeignHandles :
    /\ ~panicked
    /\ ncalls < MaxForeignCalls
    /\ LET r == get_or_insert_any(stores[s], From(handle))
           pre == HistOf(s, handle.idx)
       IN /\ Call(s, r)
          /\ hist' = Record(s, handle.idx, r,
                           Built(Accessed(pre), BuildCalls(stores[s], handle.idx)))
          /\ ret' = Ret("get_or_insert_any", ~r.panicked, s, handle.idx, handle.hc,
                        r.val, pre)

\* A linker wired by any builder invokes an accessor closure with the store.
AccessorForeign ==
  \E s \in 1..Len(stores), closure \in ForeignClosures :
    /\ ~panicked
    /\ ncalls < MaxForeignCalls
    /\ LET r == CallAccessor(closure, stores[s])
           pre == HistOf(s, closure.idx)
       IN /\ Call(s, r)
          /\ hist' = Record(s, closure.idx, r,
                           Built(Accessed(pre), BuildCalls(stores[s], closure.idx)))
          /\ ret' = Ret("accessor", ~r.panicked, s, closure.idx, closure.hc,
                        r.val, pre)

NextForeign ==
  \/ AddHostComponent
  \/ Build
  \/ NewData
  \/ SetForeign
  \/ GetOrInsertForeign
  \/ GetOrInsertAnyForeign
  \/ AccessorForeign

\* The stores of one registry, called with the handles of any registry.
SpecForeign == Init /\ [][NextForeign]_vars

\* C12: a set, get_or_insert, get_or_insert_any or accessor call whose index
\* is past the end of the store panics: it returns nothing, and the store,
\* every other store and the length of the slot vector are as before.
C12_OutOfRangeFatal ==
  [][(/\ ret'.op \in SlotOps
      /\ ncalls' # ncalls
      /\ ~InRange(stores[ret'.store].data, ret'.idx)) =>
       /\ panicked'
       /\ ~ret'.ok
       /\ ret'.val = None
       /\ stores' = stores
       /\ hist' = hist]_vars

\* A set with an index past the end of a store that has slots panicked.
C12_Witness ==
  /\ panicked
  /\ ret.op = "set"
  /\ ~ret.ok
  /\ Len(stores[ret.store].data) >= 1
  /\ ret.idx >= Len(stores[ret.store].data)
  /\ \A i \in 1..Len(stores[ret.store].data) : stores[ret.store].data[i] = None

\* The typed calls: set, get_or_insert and the accessor closure.
TypedOps == {"set", "get_or_insert", "accessor"}

\* C13: a typed call whose handle names a Data type other than that of the
\* store's provider at the index panics, and every filled slot of every store
\* holds a value of its provider's Data type.
C13_PairingErrorFatal ==
  /\ (/\ ret.op \in TypedOps
      /\ InRange(stores[ret.store].data, ret.idx)
      /\ DataType(ret.hc) # DataType(Index(stores[ret.store].host_components, ret.idx))) =>
       (panicked /\ ~ret.ok)
  /\ \A s \in 1..Len(stores) : \A i \in 1..Len(stores[s].data) :
       stores[s].data[i] # None =>
         stores[s].data[i].ty = DataType(stores[s].host_components[i])

\* ------------------------------------------- the box behind &mut dyn Any
\* The values a caller can box: of any Data type.
AnyValues == ValuesOf("u8") \cup ValuesOf("bool")

\* *b = Box::new(v), with b the &mut Box<dyn Any + Send> that downcasting the
\* reference returned by get_or_insert_any to the box type gave: the slot's
\* box is replaced, by a box of any type.
ReplaceBox ==
  /\ ~panicked
  /\ ncalls < MaxCalls
  /\ ret.op = "downcast_mut"
  /\ ret.val # None
  /\ ret.val.ty = BoxTy
  /\ \E v \in AnyValues :
       LET pre == HistOf(ret.store, ret.idx)
       IN /\ stores' = MutSelf(stores, ret.store,
                               WriteThrough(stores[ret.store], ret.idx, v))
          /\ hist' = [hist EXCEPT ![ret.store][ret.idx + 1] = Stored(pre, "ref", v)]
          /\ ret' = Ret("replace_box", TRUE, ret.store, ret.idx, ret.hc, v, pre)
  /\ ncalls' = ncalls + 1
  /\ UNCHANGED <<builder, linker, handles, registry, panicked>>

NextAny ==
  \/ AddHostComponent
  \/ Build
  \/ NewData
  \/ Set
  \/ GetOrInsert
  \/ GetOrInsertAny
  \/ Accessor
  \/ WriteRef
  \/ DowncastAny
  \/ ReplaceBox

\* The stores of one registry, called with its own handles only, by callers
\* that also use what the type-erased reference gives them.
SpecAny == Init /\ [][NextAny]_vars

\* C16: called with the handles of its own registry only, every filled slot
\* of every store holds a value of the Data type of the provider at its
\* index, and no get_or_insert or accessor call panics.
C16_DowncastDiscipline ==
  /\ ~panicked
  /\ \A s \in 1..Len(stores) : \A i \in 1..Len(stores[s].data) :
       stores[s].data[i] = None \/
         stores[s].data[i].ty = DataType(stores[s].host_components[i])

====
